---- MODULE Spec2Model ----
(***************************************************************************)
(* A model of cairus' geometry (src/common_geometry.rs) and compositing    *)
(* (src/compositor.rs) primitives.                                         *)
(*                                                                         *)
(* All numbers of the program are f32.  They are modelled as IEEE-754      *)
(* binary32 values with round-to-nearest-even on every operation:          *)
(*   [cls |-> "nan"]                      a NaN                            *)
(*   [cls |-> "inf", sgn]                 an infinity                      *)
(*   [cls |-> "fin", sgn, man, exp]       (-1)^sgn * man * 2^exp, with     *)
(*                                        man = 0 or 2^23 <= man < 2^24    *)
(* Two things of binary32 are left out: the exponent is unbounded (no      *)
(* overflow to infinity, no subnormals), and zero carries no sign (every   *)
(* zero divisor of the program is the difference of two equal numbers or   *)
(* a sum of non-negative numbers, which is +0.0).                          *)
(***************************************************************************)
EXTENDS Integers, Sequences, FiniteSets, TLC

\* ------------------------------------------------------------------ f32

\* Width of the binary32 significand, hidden bit included.
MantBits == 24

NaN == [cls |-> "nan", sgn |-> 0, man |-> 0, exp |-> 0]
PosInf == [cls |-> "inf", sgn |-> 0, man |-> 0, exp |-> 0]
NegInf == [cls |-> "inf", sgn |-> 1, man |-> 0, exp |-> 0]
Zero == [cls |-> "fin", sgn |-> 0, man |-> 0, exp |-> 0]

RECURSIVE BitLen(_)
BitLen(m) == IF m = 0 THEN 0 ELSE 1 + BitLen(m \div 2)

\* The binary32 nearest to (-1)^s * (m + f) * 2^e, ties to even, where f = 0
\* when st = 0 and 0 < f < 1 when st = 1 (st = 1 only with m wider than the
\* significand).
RoundPack(s, m, st, e) ==
    LET len == BitLen(m)
    IN  IF m = 0 THEN Zero
        ELSE IF len <= MantBits
        THEN [cls |-> "fin", sgn |-> s, man |-> m * 2^(MantBits - len),
              exp |-> e - (MantBits - len)]
        ELSE LET sh == len - MantBits
                 q == m \div 2^sh
                 r == m % 2^sh
                 half == 2^(sh - 1)
                 up == \/ r > half
                       \/ r = half /\ st = 1
                       \/ r = half /\ st = 0 /\ q % 2 = 1
                 q2 == IF up THEN q + 1 ELSE q
             IN  IF q2 = 2^MantBits
                 THEN [cls |-> "fin", sgn |-> s, man |-> 2^(MantBits - 1),
                       exp |-> e + sh + 1]
                 ELSE [cls |-> "fin", sgn |-> s, man |-> q2, exp |-> e + sh]

\* The f32 of the integer n * 2^e (a literal of the program or of a test).
Flt(n, e) == RoundPack(IF n < 0 THEN 1 ELSE 0, IF n < 0 THEN -n ELSE n, 0, e)

FromInt(n) == Flt(n, 0)

IsNaN(a) == a.cls = "nan"
IsInfinite(a) == a.cls = "inf"
IsFinite(a) == a.cls = "fin"
IsZero(a) == a.cls = "fin" /\ a.man = 0
IsSignNegative(a) == a.sgn = 1

FNeg(a) ==
    IF IsNaN(a) \/ IsZero(a) THEN a ELSE [a EXCEPT !.sgn = 1 - a.sgn]

FAbs(a) == IF IsNaN(a) THEN a ELSE [a EXCEPT !.sgn = 0]

\* |a| < |b| for finite non-zero a, b.
MagLess(a, b) == a.exp < b.exp \/ (a.exp = b.exp /\ a.man < b.man)

\* a + b for finite, non-zero a and b with |a| >= |b|: three guard bits and a
\* sticky bit.
AddOrdered(a, b) ==
    LET d == a.exp - b.exp
        big == a.man * 8
        sh == IF d > MantBits + 3 THEN MantBits + 3 ELSE d
        t == (b.man * 8) \div 2^sh
        lost == IF (b.man * 8) % 2^sh # 0 \/ d > MantBits + 3 THEN 1 ELSE 0
    IN  IF a.sgn = b.sgn
        THEN RoundPack(a.sgn, big + t, lost, a.exp - 3)
        ELSE IF lost = 1
             THEN RoundPack(a.sgn, big - t - 1, 1, a.exp - 3)
             ELSE RoundPack(a.sgn, big - t, 0, a.exp - 3)

FAdd(a, b) ==
    IF IsNaN(a) \/ IsNaN(b) THEN NaN
    ELSE IF IsInfinite(a)
         THEN IF IsInfinite(b) /\ a.sgn # b.sgn THEN NaN ELSE a
    ELSE IF IsInfinite(b) THEN b
    ELSE IF IsZero(a) THEN b
    ELSE IF IsZero(b) THEN a
    ELSE IF MagLess(a, b) THEN AddOrdered(b, a) ELSE AddOrdered(a, b)

FSub(a, b) == FAdd(a, FNeg(b))

\* The 24x24-bit product of two significands in 12-bit limbs.
FMul(a, b) ==
    IF IsNaN(a) \/ IsNaN(b) THEN NaN
    ELSE IF IsInfinite(a) \/ IsInfinite(b)
         THEN IF IsZero(a) \/ IsZero(b) THEN NaN
              ELSE [cls |-> "inf", sgn |-> (a.sgn + b.sgn) % 2, man |-> 0, exp |-> 0]
    ELSE IF IsZero(a) \/ IsZero(b) THEN Zero
    ELSE LET a1 == a.man \div 4096
             a0 == a.man % 4096
             b1 == b.man \div 4096
             b0 == b.man % 4096
             mid == a1 * b0 + a0 * b1
             low == (mid % 4096) * 4096 + a0 * b0
             hi == a1 * b1 + (mid \div 4096) + (low \div 2^MantBits)
             lo == low % 2^MantBits
         IN  RoundPack((a.sgn + b.sgn) % 2, hi * 4 + (lo \div 2^(MantBits - 2)),
                       IF lo % 2^(MantBits - 2) # 0 THEN 1 ELSE 0,
                       a.exp + b.exp + MantBits - 2)

\* <<q, r>> with q = floor(n * 2^k / d) and r the remainder, by long division
\* from <<n \div d, n % d>>.
RECURSIVE LongDiv(_, _, _, _)
LongDiv(q, r, d, k) ==
    IF k = 0 THEN <<q, r>>
    ELSE LongDiv(2 * q + ((2 * r) \div d), (2 * r) % d, d, k - 1)

FDiv(a, b) ==
    IF IsNaN(a) \/ IsNaN(b) THEN NaN
    ELSE IF IsInfinite(a)
         THEN IF IsInfinite(b) THEN NaN
              ELSE [cls |-> "inf", sgn |-> (a.sgn + b.sgn) % 2, man |-> 0, exp |-> 0]
    ELSE IF IsInfinite(b) THEN Zero
    ELSE IF IsZero(b)
         THEN IF IsZero(a) THEN NaN
              ELSE [cls |-> "inf", sgn |-> a.sgn, man |-> 0, exp |-> 0]
    ELSE IF IsZero(a) THEN Zero
    ELSE LET qr == LongDiv(a.man \div b.man, a.man % b.man, b.man, MantBits + 2)
         IN  RoundPack((a.sgn + b.sgn) % 2, qr[1], IF qr[2] # 0 THEN 1 ELSE 0,
                       a.exp - b.exp - (MantBits + 2))

\* The comparisons of f32: every comparison with a NaN is false.
FLt(a, b) ==
    IF IsNaN(a) \/ IsNaN(b) THEN FALSE
    ELSE IF IsInfinite(a) THEN a.sgn = 1 /\ ~(IsInfinite(b) /\ b.sgn = 1)
    ELSE IF IsInfinite(b) THEN b.sgn = 0
    ELSE IF IsZero(a) THEN ~IsZero(b) /\ b.sgn = 0
    ELSE IF IsZero(b) THEN a.sgn = 1
    ELSE IF a.sgn # b.sgn THEN a.sgn = 1
    ELSE IF a.sgn = 0 THEN MagLess(a, b) ELSE MagLess(b, a)

FGt(a, b) == FLt(b, a)

FEq(a, b) == ~IsNaN(a) /\ ~IsNaN(b) /\ a = b

FLe(a, b) == FLt(a, b) \/ FEq(a, b)

\* f32::min and f32::max: when one argument is a NaN the other is returned.
FMin(a, b) == IF IsNaN(a) THEN b ELSE IF IsNaN(b) THEN a ELSE IF FLt(b, a) THEN b ELSE a

FMax(a, b) == IF IsNaN(a) THEN b ELSE IF IsNaN(b) THEN a ELSE IF FGt(b, a) THEN b ELSE a

\* The integer part of |a| for a finite a below 2^31, and 2^31 - 1 from there on.
TruncMag(a) ==
    IF a.man = 0 THEN 0
    ELSE IF a.exp >= 8 THEN 2147483647
    ELSE IF a.exp >= 0 THEN a.man * 2^a.exp
    ELSE IF -a.exp >= MantBits THEN 0
    ELSE a.man \div 2^(-a.exp)

\* `a as i32`: toward zero, saturating, NaN to 0.
AsI32(a) ==
    IF IsNaN(a) THEN 0
    ELSE IF IsInfinite(a) THEN (IF a.sgn = 1 THEN -2147483647 - 1 ELSE 2147483647)
    ELSE IF a.sgn = 1
         THEN (IF a.exp >= 8 THEN -2147483647 - 1 ELSE -TruncMag(a))
         ELSE TruncMag(a)

\* `a as u8`: toward zero, saturating to 0..255, NaN to 0.
AsU8(a) ==
    IF IsNaN(a) THEN 0
    ELSE IF a.sgn = 1 THEN 0
    ELSE IF IsInfinite(a) THEN 255
    ELSE IF TruncMag(a) > 255 THEN 255 ELSE TruncMag(a)

One == Flt(1, 0)
Half == Flt(1, -1)
Three == Flt(3, 0)

\* The f32 literal n / 10 (0.1, 0.3, ...): the binary32 nearest to it.
Tenths(n) == FDiv(FromInt(n), FromInt(10))

\* ------------------------------------------------------- compositor.rs

\* struct Rgba
Rgba(r, g, b, a) == [red |-> r, green |-> g, blue |-> b, alpha |-> a]

\* Rgba::correct
correct(c) ==
    Rgba(FMax(FMin(c.red, One), Zero), FMax(FMin(c.green, One), Zero),
         FMax(FMin(c.blue, One), Zero), FMax(FMin(c.alpha, One), Zero))

\* Rgba::new
RgbaNew(r, g, b, a) == correct(Rgba(r, g, b, a))

\* to_int rounding to the nearest integer instead of truncating.
to_int_rounding(c) ==
    <<AsU8(FAdd(FMul(c.red, FromInt(255)), Half)),
      AsU8(FAdd(FMul(c.green, FromInt(255)), Half)),
      AsU8(FAdd(FMul(c.blue, FromInt(255)), Half)),
      AsU8(FAdd(FMul(c.alpha, FromInt(255)), Half))>>

\* Rgba::to_int
to_int(c) ==
    <<AsU8(FMul(c.red, FromInt(255))), AsU8(FMul(c.green, FromInt(255))),
      AsU8(FMul(c.blue, FromInt(255))), AsU8(FMul(c.alpha, FromInt(255)))>>

\* impl PartialEq for Rgba
RgbaEq(a, b) ==
    FEq(a.red, b.red) /\ FEq(a.green, b.green) /\ FEq(a.blue, b.blue)
        /\ FEq(a.alpha, b.alpha)

\* over_color reading the destination's alpha after over has overwritten it.
over_color_stale(source_color, destination_color, source_alpha, destination_alpha, new_alpha) ==
    FDiv(FAdd(FMul(source_color, source_alpha),
              FMul(FMul(destination_color, new_alpha),
                   FSub(One, source_alpha))),
         new_alpha)

over_color(source_color, destination_color, source_alpha, destination_alpha, new_alpha) ==
    FDiv(FAdd(FMul(source_color, source_alpha),
              FMul(FMul(destination_color, destination_alpha),
                   FSub(One, source_alpha))),
         new_alpha)

over_alpha(src, dst) == FAdd(src, FMul(dst, FSub(One, src)))

\* over: the value the destination holds when the call returns.
over(src, dst) ==
    LET alpha == over_alpha(src.alpha, dst.alpha)
        red == over_color(src.red, dst.red, src.alpha, dst.alpha, alpha)
        green == over_color(src.green, dst.green, src.alpha, dst.alpha, alpha)
        blue == over_color(src.blue, dst.blue, src.alpha, dst.alpha, alpha)
    IN  Rgba(red, green, blue, alpha)

\* enum Operator
Operator == {"Over"}

\* fetch_operator handing back a function that leaves the destination alone.
fetch_operator_noop(op) == "noop"

\* fetch_operator: the function (named by its identifier) the match arm of op
\* returns.
fetch_operator(op) == CASE op = "Over" -> "over"

\* compose(&source, &mut destination) for a function pointer compose: the
\* value the destination holds when the call returns.  over is the only
\* function of the fn(&Rgba, &mut Rgba) type that fetch_operator can return;
\* any other leaves no trace of over on the destination.
call(compose, src, dst) == IF compose = "over" THEN over(src, dst) ELSE dst

\* --------------------------------------------------- common_geometry.rs

\* struct Point
Point(x, y) == [x |-> x, y |-> y]

\* impl PartialEq for Point
PointEq(a, b) == FEq(a.x, b.x) /\ FEq(a.y, b.y)

\* LineSegment::new
LineSegmentNew(first_x, first_y, second_x, second_y) ==
    [point1 |-> Point(first_x, first_y), point2 |-> Point(second_x, second_y)]

\* LineSegment::from_points
from_points(point1, point2) == [point1 |-> point1, point2 |-> point2]

\* LineSegment::slope
slope(self) ==
    LET delta_x == FSub(self.point2.x, self.point1.x)
        delta_y == FSub(self.point2.y, self.point1.y)
        result == FDiv(delta_y, delta_x)
    IN  IF IsInfinite(result) /\ IsSignNegative(result) THEN PosInf ELSE result

\* highest_point taking point1 on a tie.
highest_point_ge(self) ==
    IF FGt(self.point1.y, self.point2.y) \/ FEq(self.point1.y, self.point2.y)
    THEN self.point1 ELSE self.point2

highest_point(self) ==
    IF FGt(self.point1.y, self.point2.y) THEN self.point1 ELSE self.point2

lowest_point(self) ==
    IF FLt(self.point1.y, self.point2.y) THEN self.point1 ELSE self.point2

leftmost_point(self) ==
    IF FLt(self.point1.x, self.point2.x) THEN self.point1 ELSE self.point2

rightmost_point(self) ==
    IF FGt(self.point1.x, self.point2.x) THEN self.point1 ELSE self.point2

\* The loop emitting the pixel before it advances x and y.
RECURSIVE dda_loop_emit_first(_, _, _, _, _, _)
dda_loop_emit_first(x, y, x_increment, y_increment, n, result) ==
    IF n <= 0 THEN result
    ELSE dda_loop_emit_first(FAdd(x, x_increment), FAdd(y, y_increment),
                             x_increment, y_increment, n - 1,
                             Append(result, <<AsI32(x), AsI32(y)>>))

\* The loop stepping y against its increment.
RECURSIVE dda_loop_y_reversed(_, _, _, _, _, _)
dda_loop_y_reversed(x, y, x_increment, y_increment, n, result) ==
    IF n <= 0 THEN result
    ELSE LET x2 == FAdd(x, x_increment)
             y2 == FSub(y, y_increment)
         IN  dda_loop_y_reversed(x2, y2, x_increment, y_increment, n - 1,
                                 Append(result, <<AsI32(x2), AsI32(y2)>>))

\* The loop of into_pixel_coordinates with n iterations left: x and y advance,
\* then the truncated pair is pushed.
RECURSIVE dda_loop(_, _, _, _, _, _)
dda_loop(x, y, x_increment, y_increment, n, result) ==
    IF n <= 0 THEN result
    ELSE LET x2 == FAdd(x, x_increment)
             y2 == FAdd(y, y_increment)
         IN  dda_loop(x2, y2, x_increment, y_increment, n - 1,
                      Append(result, <<AsI32(x2), AsI32(y2)>>))

\* LineSegment::into_pixel_coordinates
into_pixel_coordinates(self) ==
    LET leftpoint == leftmost_point(self)
        rightpoint == rightmost_point(self)
        delta_x == FSub(rightpoint.x, leftpoint.x)
        delta_y == FSub(rightpoint.y, leftpoint.y)
        steps == IF FGt(FAbs(delta_x), FAbs(delta_y)) THEN FAbs(delta_x) ELSE FAbs(delta_y)
        x_increment == FDiv(delta_x, steps)
        y_increment == FDiv(delta_y, steps)
    IN  dda_loop(leftpoint.x, leftpoint.y, x_increment, y_increment, AsI32(steps), <<>>)

\* LineSegment equality comparing the endpoints in the given order only.
LineEq_ordered(self, rhs) ==
    PointEq(self.point1, rhs.point1) /\ PointEq(self.point2, rhs.point2)

\* impl PartialEq for LineSegment
LineEq(self, rhs) ==
    \/ PointEq(self.point1, rhs.point1) /\ PointEq(self.point2, rhs.point2)
    \/ PointEq(self.point1, rhs.point2) /\ PointEq(self.point2, rhs.point1)

\* --------------------------------------------------------------- state

VARIABLES
    source,       \* the Rgba a caller composites from
    destination,  \* the Rgba a caller composites onto (over's &mut argument)
    nOver,        \* how many times over has run on destination
    last,         \* the operation that ran last
    ret,          \* what it returned ("none": nothing)
    line,         \* the LineSegment the geometry calls are made on
    other         \* a second LineSegment, to compare line with

vars == <<source, destination, nOver, last, ret, line, other>>

\* How many over calls a run makes.
MaxOvers == 2

\* The arguments callers pass to Rgba::new: those of the tests of
\* compositor.rs, every channel at one value, in and out of [0, 1], and
\* colours whose alpha is not a short binary fraction: 0.1, 1./3. and
\* 0.99999994, the largest f32 below 1.
RawValues == {NaN, NegInf, Flt(-3, 0), Zero, Half, One, Three, PosInf}

RawInputs ==
    {<<One, Zero, Zero, Half>>, <<Zero, One, Zero, Half>>, <<One, Zero, Zero, One>>,
     <<Zero, One, One, Half>>, <<Zero, Zero, One, Half>>, <<Zero, One, Zero, One>>,
     <<Tenths(3), Tenths(7), Tenths(9), Tenths(1)>>,
     <<Zero, Zero, Zero, FDiv(One, Three)>>,
     <<Zero, Zero, Zero, Flt(16777215, -24)>>}
        \cup {<<v, v, v, v>> : v \in RawValues}

\* The Rgba and the LineSegment of the runs that do not use them.
IdleRgba == Rgba(Zero, Zero, Zero, Zero)
IdleLine == LineSegmentNew(Zero, Zero, Zero, Zero)

InitRgba ==
    /\ line = IdleLine
    /\ other = IdleLine
    /\ \E r \in RawInputs : source = RgbaNew(r[1], r[2], r[3], r[4])
    /\ \E r \in RawInputs : destination = RgbaNew(r[1], r[2], r[3], r[4])
    /\ nOver = 0
    /\ last = "init"
    /\ ret = "none"

\* let source = Rgba::new(..)
New ==
    /\ \E r \in RawInputs : source' = RgbaNew(r[1], r[2], r[3], r[4])
    /\ last' = "new"
    /\ ret' = "none"
    /\ UNCHANGED <<destination, nOver, line, other>>

\* over(&source, &mut destination)
Over ==
    /\ nOver < MaxOvers
    /\ destination' = over(source, destination)
    /\ nOver' = nOver + 1
    /\ last' = "over"
    /\ ret' = "none"
    /\ UNCHANGED <<source, line, other>>

\* source.to_int()
ToInt ==
    /\ ret' = to_int(source)
    /\ last' = "to_int"
    /\ UNCHANGED <<source, destination, nOver, line, other>>

\* let compose = fetch_operator(&op); compose(&source, &mut destination)
Compose ==
    /\ nOver < MaxOvers
    /\ \E op \in Operator :
           /\ ret' = fetch_operator(op)
           /\ destination' = call(fetch_operator(op), source, destination)
    /\ nOver' = nOver + 1
    /\ last' = "compose"
    /\ UNCHANGED <<source, line, other>>

NextRgba == New \/ Over \/ ToInt \/ Compose

SpecRgba == InitRgba /\ [][NextRgba]_vars
\* The coordinates of the rasterised segments are the multiples of 1/2 from
\* -MinCoordHalves/2 to MaxCoordHalves/2.
MinCoordHalves == 2
MaxCoordHalves == 6

Coords == {Flt(n, -1) : n \in -MinCoordHalves..MaxCoordHalves}

InitLine ==
    /\ \E x1 \in Coords, y1 \in Coords, x2 \in Coords, y2 \in Coords :
           line = LineSegmentNew(x1, y1, x2, y2)
    /\ other = IdleLine
    /\ source = IdleRgba
    /\ destination = IdleRgba
    /\ nOver = 0
    /\ last = "init"
    /\ ret = "none"

\* line.highest_point()
HighestPoint ==
    /\ ret' = highest_point(line)
    /\ last' = "highest_point"
    /\ UNCHANGED <<source, destination, nOver, line, other>>

\* line.lowest_point()
LowestPoint ==
    /\ ret' = lowest_point(line)
    /\ last' = "lowest_point"
    /\ UNCHANGED <<source, destination, nOver, line, other>>

\* line.leftmost_point()
LeftmostPoint ==
    /\ ret' = leftmost_point(line)
    /\ last' = "leftmost_point"
    /\ UNCHANGED <<source, destination, nOver, line, other>>

\* line.rightmost_point()
RightmostPoint ==
    /\ ret' = rightmost_point(line)
    /\ last' = "rightmost_point"
    /\ UNCHANGED <<source, destination, nOver, line, other>>

\* line.into_pixel_coordinates()
IntoPixelCoordinates ==
    /\ ret' = into_pixel_coordinates(line)
    /\ last' = "into_pixel_coordinates"
    /\ UNCHANGED <<source, destination, nOver, line, other>>

NextLine ==
    HighestPoint \/ LowestPoint \/ LeftmostPoint \/ RightmostPoint \/ IntoPixelCoordinates

SpecLine == InitLine /\ [][NextLine]_vars

\* The endpoints of the compared segments have x in 0..MaxPairX and y in
\* -MaxPairY..MaxPairY.
MaxPairX == 1
MaxPairY == 1

PairPoints == {Point(FromInt(x), FromInt(y)) : x \in 0..MaxPairX, y \in -MaxPairY..MaxPairY}

InitPair ==
    /\ \E p1 \in PairPoints, p2 \in PairPoints : line = from_points(p1, p2)
    /\ \E p1 \in PairPoints, p2 \in PairPoints : other = from_points(p1, p2)
    /\ source = IdleRgba
    /\ destination = IdleRgba
    /\ nOver = 0
    /\ last = "init"
    /\ ret = "none"

\* other = LineSegment::from_points(line.point2, line.point1)
FromPointsSwapped ==
    /\ other' = from_points(line.point2, line.point1)
    /\ last' = "from_points"
    /\ ret' = "none"
    /\ UNCHANGED <<source, destination, nOver, line>>

\* line.slope() compared with other.slope(), as the tests do with > and ==
CompareSlopes ==
    /\ ret' = [gt |-> FGt(slope(line), slope(other)), eq |-> FEq(slope(line), slope(other))]
    /\ last' = "slope"
    /\ UNCHANGED <<source, destination, nOver, line, other>>

\* line == other
Equals ==
    /\ ret' = LineEq(line, other)
    /\ last' = "eq"
    /\ UNCHANGED <<source, destination, nOver, line, other>>

NextPair == FromPointsSwapped \/ CompareSlopes \/ Equals

SpecPair == InitPair /\ [][NextPair]_vars

\* ------------------------------------------------- claims: compositor

Channels(c) == <<c.red, c.green, c.blue, c.alpha>>

\* Every channel of c lies in [0, 1] (false of a NaN channel).
InUnit(c) == \A i \in 1..4 : FLe(Zero, Channels(c)[i]) /\ FLe(Channels(c)[i], One)

\* C1: every channel of an Rgba lies in [0, 1] after Rgba::new and after any
\* sequence of over operations, source and destination both at alpha 0
\* included.
C1_ChannelsInUnitInterval == InUnit(source) /\ InUnit(destination)

\* C2: for s and d with channels in [0, 1] and s.alpha + d.alpha*(1 - s.alpha)
\* > 0, over(s, d) leaves d.alpha' = s.alpha + d.alpha*(1 - s.alpha) and, for
\* red, green and blue, d.c' = (s.c*s.alpha + d.c*d.alpha*(1 - s.alpha)) /
\* d.alpha', from the values d held before the call, and leaves s as it was.
C2_OverFormula ==
    [][(last' = "over" /\ InUnit(source) /\ InUnit(destination)
         /\ FGt(FAdd(source.alpha, FMul(destination.alpha, FSub(One, source.alpha))), Zero))
       => LET s == source
              d == destination
              a == FAdd(s.alpha, FMul(d.alpha, FSub(One, s.alpha)))
              Blend(sc, dc) ==
                  FDiv(FAdd(FMul(sc, s.alpha), FMul(FMul(dc, d.alpha), FSub(One, s.alpha))), a)
          IN  /\ destination'.alpha = a
              /\ destination'.red = Blend(s.red, d.red)
              /\ destination'.green = Blend(s.green, d.green)
              /\ destination'.blue = Blend(s.blue, d.blue)
              /\ source' = s]_vars

\* C2's case: the blend of the tests, (1, 0, 0, 0.5) over (0, 1, 0, 0.5), has
\* left (0.6666667, 0.33333334, 0, 0.75).
C2_Witness ==
    /\ last = "over"
    /\ source = Rgba(One, Zero, Zero, Half)
    /\ destination = Rgba(FDiv(FromInt(2), Three), FDiv(One, Three), Zero, Flt(3, -2))

\* C3: after over(source, destination) with source.alpha = 1 the destination
\* equals the source in all four channels, whatever the destination was.
C3_OpaqueSourceCovers ==
    [][(last' = "over" /\ FEq(source.alpha, One)) => RgbaEq(destination', source)]_vars

C11_FetchOperatorIsOver ==
    [][last' = "compose" =>
          /\ \A op \in Operator : fetch_operator(op) = "over"
          /\ ret' = "over"
          /\ destination' = over(source, destination)
          /\ source' = source]_vars

\* C11's case: the composition of test_fetch_operator, (1, 0, 0, 0.5) onto
\* (0, 1, 0, 0.5) through the fetched function, has left (0.6666667,
\* 0.33333334, 0, 0.75).
C11_Witness ==
    /\ last = "compose"
    /\ ret = "over"
    /\ source = Rgba(One, Zero, Zero, Half)
    /\ destination = Rgba(FDiv(FromInt(2), Three), FDiv(One, Three), Zero, Flt(3, -2))

\* C12: across any sequence of over operations onto one destination, with
\* sources and initial destination built by Rgba::new, the destination's
\* alpha never decreases: after each over(s, d) the new d.alpha is at least
\* the old d.alpha and at least s.alpha, and a destination whose alpha is 1
\* keeps alpha 1.
C12_AlphaNeverDecreases ==
    [][last' \in {"over", "compose"} =>
          /\ FLe(destination.alpha, destination'.alpha)
          /\ FLe(source.alpha, destination'.alpha)
          /\ (FEq(destination.alpha, One) => FEq(destination'.alpha, One))]_vars

\* --------------------------------------------------- claims: geometry

\* The integer 2 * a of a finite f32 a that is a multiple of 1/2 (every
\* coordinate of Coords and PairPoints is).
Halves(a) ==
    LET mag == IF a.man = 0 THEN 0
               ELSE IF a.exp + 1 >= 0 THEN a.man * 2^(a.exp + 1)
               ELSE a.man \div 2^(-(a.exp + 1))
    IN  IF a.sgn = 1 THEN -mag ELSE mag

Abs(n) == IF n < 0 THEN -n ELSE n

\* The integer part of the rational n / d (d > 0), toward zero.
TruncRatio(n, d) == IF n < 0 THEN -((-n) \div d) ELSE n \div d

\* Both endpoints of l have non-negative coordinates.
NonNegative(l) ==
    /\ Halves(l.point1.x) >= 0 /\ Halves(l.point1.y) >= 0
    /\ Halves(l.point2.x) >= 0 /\ Halves(l.point2.y) >= 0

\* The pixel of the truncated coordinates of point p.
PixelOf(p) == <<AsI32(p.x), AsI32(p.y)>>

InSeq(e, q) == \E k \in 1..Len(q) : q[k] = e

\* C4: with L = leftmost_point(), R = rightmost_point(), dx = R.x - L.x, dy =
\* R.y - L.y and steps = max(|dx|, |dy|), into_pixel_coordinates() returns
\* exactly floor(steps) pairs, the k-th being (trunc(L.x + k*dx/steps),
\* trunc(L.y + k*dy/steps)).  In halves: L.x + k*dx/steps =
\* (Lx*steps + 2*k*dx) / (2*steps).
C4_PixelsClosedForm ==
    last = "into_pixel_coordinates" =>
        LET L == leftmost_point(line)
            R == rightmost_point(line)
            dx == Halves(R.x) - Halves(L.x)
            dy == Halves(R.y) - Halves(L.y)
            steps == IF Abs(dx) > Abs(dy) THEN Abs(dx) ELSE Abs(dy)
        IN  /\ Len(ret) = steps \div 2
            /\ \A k \in 1..Len(ret) :
                   ret[k] = <<TruncRatio(Halves(L.x) * steps + 2 * k * dx, 2 * steps),
                              TruncRatio(Halves(L.y) * steps + 2 * k * dy, 2 * steps)>>

\* C5 as claimed: for any segment the pixel of the truncated leftmost endpoint
\* is not among the pixels into_pixel_coordinates() returns.
C5_StartNeverEmitted_AnySegment ==
    last = "into_pixel_coordinates" => ~InSeq(PixelOf(leftmost_point(line)), ret)

\* C5, amended: for a segment whose endpoints have non-negative coordinates
\* the pixel of the truncated leftmost endpoint is not among the pixels
\* into_pixel_coordinates() returns.
C5_StartNeverEmitted ==
    (last = "into_pixel_coordinates" /\ NonNegative(line))
        => ~InSeq(PixelOf(leftmost_point(line)), ret)

\* C5's case: a segment with non-negative, fractional coordinates has been
\* rasterised into at least two pixels.
C5_Witness ==
    /\ last = "into_pixel_coordinates"
    /\ line = LineSegmentNew(Flt(1, -1), Flt(1, -1), Flt(3, 0), Flt(3, -1))
    /\ Len(ret) >= 2

\* C6: the slope() of a vertical segment (point1.x = point2.x) is greater than
\* the slope() of every non-vertical segment and equal to that of every
\* other vertical segment, whichever endpoint has the larger y.
Vertical(l) == Halves(l.point1.x) = Halves(l.point2.x)

C6_VerticalSlopeGreatest ==
    (last = "slope" /\ Vertical(line)) =>
        /\ ~Vertical(other) => ret.gt
        /\ Vertical(other) => ret.eq

C8_ExtremaTieToPoint2 ==
    LET p1 == line.point1
        p2 == line.point2
    IN  /\ last = "highest_point" =>
               ret = IF Halves(p1.y) > Halves(p2.y) THEN p1 ELSE p2
        /\ last = "lowest_point" =>
               ret = IF Halves(p1.y) < Halves(p2.y) THEN p1 ELSE p2
        /\ last = "leftmost_point" =>
               ret = IF Halves(p1.x) < Halves(p2.x) THEN p1 ELSE p2
        /\ last = "rightmost_point" =>
               ret = IF Halves(p1.x) > Halves(p2.x) THEN p1 ELSE p2

\* C8's case: highest_point() has returned point2 for a segment whose two
\* distinct endpoints have the same y.
C8_Witness ==
    /\ last = "highest_point"
    /\ Halves(line.point1.y) = Halves(line.point2.y)
    /\ line.point1 # line.point2
    /\ ret = line.point2

C13_VerticalPixelCount ==
    LET h2 == Abs(Halves(line.point2.y) - Halves(line.point1.y))
    IN  (last = "into_pixel_coordinates" /\ Vertical(line) /\ h2 >= 2)
            => /\ Len(ret) = h2 \div 2
               /\ Len(ret) > 0
====
